---- MODULE Spec2Model ----
(***************************************************************************)
(* Model of data_stream.py: the OpenSearch data-stream administrator and   *)
(* its command-line dispatch.  Every HTTP request is one step; the reply   *)
(* of the remote store (status and body) is the step's input.  Times are   *)
(* integers counting milliseconds: a value of x seconds in the program is  *)
(* represented by 1000 * x, so int(creation_date) / 1000 is exact.         *)
(***************************************************************************)
EXTENDS Integers, Sequences, FiniteSets, TLC

VARIABLES args, pc, outcome, response, log, msgs,
          indices, indices_creation_dates, pos, now, checked_at,
          templates, data_streams, backing, created, prior

vars == <<args, pc, outcome, response, log, msgs,
          indices, indices_creation_dates, pos, now, checked_at,
          templates, data_streams, backing, created, prior>>

(* ---------------------------- bounds ----------------------------------- *)
MaxIdx == 2
MaxDays == 1
MaxTicks == 1
MaxCalls == 2

(* ---------------------------- inputs ----------------------------------- *)
DayMs == 24 * 60 * 60 * 1000
Now0 == 3 * DayMs
Names == {"logs", "metrics"}
IndexNames == {"ds-000001", "ds-000002"}
None == <<>>
NoStatus == 0
Statuses == {200, 201, 304, 400, 404, 500}
AlreadyExists == "resource_already_exists_exception"
Bodies == {"data", AlreadyExists, "illegal_argument_exception", "malformed"}
Unread == "unread"
NoResponse == [status |-> NoStatus, body |-> "none"]
TransportFailure == [status |-> NoStatus, body |-> "transport_failure"]
StatusReplies == [status : Statuses, body : {Unread}] \cup {TransportFailure}
BodyReplies == [status : Statuses, body : Bodies] \cup {TransportFailure}
LoopStatuses == {200, 304, 404, 500}
LoopReplies == [status : LoopStatuses, body : {Unread}] \cup {TransportFailure}
JsonReplies == [status : LoopStatuses, body : {"data", "malformed"}] \cup {TransportFailure}
CreationDates == {Now0 - d * DayMs : d \in 0..MaxDays}
RetentionPeriods == {None} \cup {<<d>> : d \in 0..MaxDays}
BackingLists == UNION {[1..n -> IndexNames] : n \in 0..MaxIdx}

(* ---------------------------- helpers ---------------------------------- *)
HealthPath == "/_cluster/health"
DataStreamPath(name) == "/_data_stream/" \o name
TemplateName(name) == name \o "-template"
TemplatePath(name) == "/_index_template/" \o TemplateName(name)
RolloverPath(name) == "/" \o name \o "/_rollover"
IndexPath(index) == "/" \o index

Req(method, path, r) == [method |-> method, path |-> path, status |-> r.status]
Msg(level, text, subject) == [level |-> level, text |-> text, subject |-> subject]

Transport(r) == r.status = NoStatus

RaiseForStatus_5xxOnly(r) == r.status >= 500 /\ r.status < 600
RaiseForStatus_4xxOnly(r) == r.status >= 400 /\ r.status < 500
RaiseForStatus(r) == r.status >= 400 /\ r.status < 600

Raises(r) == Transport(r) \/ RaiseForStatus(r)

DoesExist_Any2xx3xx(r) == r.status < 400
DoesExist(r) == r.status = 200

IsAlreadyExists_Never(r) == FALSE
IsAlreadyExists_OtherType(r) == r.body = "illegal_argument_exception"
IsAlreadyExists(r) == r.body = AlreadyExists

ErrorTypeReadable(r) == r.body \in {AlreadyExists, "illegal_argument_exception"}

JsonReadable(r) == r.body = "data"

ExceedsRetention_Inclusive(age, days) == age >= days * 24 * 60 * 60 * 1000
ExceedsRetention(age, days) == age > days * 24 * 60 * 60 * 1000

SettingsDone_AfterFirst(p, idxs) == p >= 1
SettingsDone(p, idxs) == p = Len(idxs)

HasKey(d, key) == \E j \in 1..Len(d) : d[j].index = key

DictSet_Append(d, key, val) == Append(d, [index |-> key, creation_date |-> val])
DictSet(d, key, val) ==
    IF HasKey(d, key)
    THEN [j \in 1..Len(d) |-> IF d[j].index = key
                              THEN [index |-> key, creation_date |-> val]
                              ELSE d[j]]
    ELSE Append(d, [index |-> key, creation_date |-> val])

(* ---------------------------- initial state ---------------------------- *)
Locals0 ==
    /\ outcome = "running"
    /\ response = NoResponse
    /\ log = <<>>
    /\ msgs = <<>>
    /\ indices = <<>>
    /\ indices_creation_dates = <<>>
    /\ pos = 0
    /\ checked_at = <<>>
    /\ now = Now0
    /\ prior = <<>>

Init ==
    /\ args \in [action : {"create", "rollover", "clean"},
                 data_stream : {"logs"},
                 retention_period : RetentionPeriods]
    /\ pc = "check_connection"
    /\ Locals0
    /\ templates = {}
    /\ data_streams = {}
    /\ backing \in BackingLists
    /\ created \in [IndexNames -> CreationDates]

(* ---------------------------- steps ------------------------------------ *)
Raise ==
    /\ outcome' = "raised"
    /\ pc' = "done"

Return ==
    /\ outcome' = "returned"
    /\ pc' = "done"

CheckConnection(r) ==
    /\ pc = "check_connection"
    /\ response' = r
    /\ log' = Append(log, Req("GET", HealthPath, r))
    /\ IF Raises(r)
       THEN Raise /\ UNCHANGED msgs
       ELSE /\ msgs' = Append(msgs, Msg("info", "Connection to OpenSearch successful", ""))
            /\ pc' = "dispatch"
            /\ UNCHANGED outcome
    /\ UNCHANGED <<args, indices, indices_creation_dates, pos, now, checked_at,
                   templates, data_streams, backing, created, prior>>

Dispatch ==
    /\ pc = "dispatch"
    /\ IF args.action = "create"
       THEN pc' = "create_template" /\ UNCHANGED outcome
       ELSE IF args.action = "rollover"
       THEN pc' = "rollover_exists" /\ UNCHANGED outcome
       ELSE IF args.retention_period = None
       THEN outcome' = "usage_error" /\ pc' = "done"
       ELSE pc' = "clean_exists" /\ UNCHANGED outcome
    /\ UNCHANGED <<args, response, log, msgs, indices, indices_creation_dates,
                   pos, now, checked_at, templates, data_streams, backing, created, prior>>

(* create_data_stream *)
CreatePutTemplate(r) ==
    /\ pc = "create_template"
    /\ response' = r
    /\ log' = Append(log, Req("PUT", TemplatePath(args.data_stream), r))
    /\ IF Raises(r)
       THEN Raise /\ UNCHANGED msgs
       ELSE /\ msgs' = Append(msgs, Msg("info", "Created index template",
                                        TemplateName(args.data_stream)))
            /\ pc' = "create_stream"
            /\ UNCHANGED outcome
    /\ templates' = IF r.status \in 200..299
                    THEN templates \cup {TemplateName(args.data_stream)}
                    ELSE templates
    /\ UNCHANGED <<args, indices, indices_creation_dates, pos, now, checked_at,
                   data_streams, backing, created, prior>>

CreatePutStream(r) ==
    /\ pc = "create_stream"
    /\ response' = r
    /\ log' = Append(log, Req("PUT", DataStreamPath(args.data_stream), r))
    /\ IF Transport(r)
       THEN Raise /\ UNCHANGED msgs
       ELSE IF r.status = 400 /\ ~ErrorTypeReadable(r)
       THEN Raise /\ UNCHANGED msgs
       ELSE IF r.status = 400 /\ IsAlreadyExists(r)
       THEN /\ msgs' = Append(msgs, Msg("info", "Data stream already exists",
                                        args.data_stream))
            /\ Return
       ELSE IF RaiseForStatus(r)
       THEN Raise /\ UNCHANGED msgs
       ELSE /\ msgs' = Append(msgs, Msg("info", "Created data stream",
                                        args.data_stream))
            /\ Return
    /\ data_streams' = IF r.status \in 200..299
                       THEN data_streams \cup {args.data_stream}
                       ELSE data_streams
    /\ UNCHANGED <<args, indices, indices_creation_dates, pos, now, checked_at,
                   templates, backing, created, prior>>

(* rollover_data_stream *)
RolloverExists(r) ==
    /\ pc = "rollover_exists"
    /\ response' = r
    /\ log' = Append(log, Req("GET", DataStreamPath(args.data_stream), r))
    /\ IF Transport(r)
       THEN Raise /\ UNCHANGED msgs
       ELSE IF ~DoesExist(r)
       THEN /\ msgs' = Append(msgs, Msg("error", "Data stream does not exist",
                                        args.data_stream))
            /\ Return
       ELSE /\ pc' = "rollover_post"
            /\ UNCHANGED <<outcome, msgs>>
    /\ UNCHANGED <<args, indices, indices_creation_dates, pos, now, checked_at,
                   templates, data_streams, backing, created, prior>>

RolloverPost(r) ==
    /\ pc = "rollover_post"
    /\ response' = r
    /\ log' = Append(log, Req("POST", RolloverPath(args.data_stream), r))
    /\ IF Raises(r)
       THEN Raise /\ UNCHANGED msgs
       ELSE /\ msgs' = Append(msgs, Msg("info", "Rollover data stream",
                                        args.data_stream))
            /\ Return
    /\ UNCHANGED <<args, indices, indices_creation_dates, pos, now, checked_at,
                   templates, data_streams, backing, created, prior>>

(* clean_old_data_stream_indices *)
CleanExists(r) ==
    /\ pc = "clean_exists"
    /\ response' = r
    /\ log' = Append(log, Req("GET", DataStreamPath(args.data_stream), r))
    /\ IF Transport(r)
       THEN Raise /\ UNCHANGED msgs
       ELSE IF ~DoesExist(r)
       THEN /\ msgs' = Append(msgs, Msg("error", "Data stream does not exist",
                                        args.data_stream))
            /\ Return
       ELSE /\ pc' = "clean_descriptor"
            /\ UNCHANGED <<outcome, msgs>>
    /\ UNCHANGED <<args, indices, indices_creation_dates, pos, now, checked_at,
                   templates, data_streams, backing, created, prior>>

CleanGetDescriptor(r) ==
    /\ pc = "clean_descriptor"
    /\ response' = r
    /\ log' = Append(log, Req("GET", DataStreamPath(args.data_stream), r))
    /\ IF Raises(r) \/ ~JsonReadable(r)
       THEN Raise /\ UNCHANGED <<msgs, indices, pos>>
       ELSE /\ indices' = backing
            /\ msgs' = Append(msgs, Msg("info", "Found indices", args.data_stream))
            /\ pc' = IF Len(backing) = 0 THEN "clean_delete" ELSE "clean_settings"
            /\ pos' = 1
            /\ UNCHANGED outcome
    /\ UNCHANGED <<args, indices_creation_dates, now, checked_at,
                   templates, data_streams, backing, created, prior>>

CleanGetSettings(r) ==
    /\ pc = "clean_settings"
    /\ pos \in 1..Len(indices)
    /\ response' = r
    /\ log' = Append(log, Req("GET", IndexPath(indices[pos]), r))
    /\ IF Raises(r) \/ ~JsonReadable(r)
       THEN Raise /\ UNCHANGED <<indices_creation_dates, pos>>
       ELSE /\ indices_creation_dates' =
                   DictSet(indices_creation_dates, indices[pos], created[indices[pos]])
            /\ IF SettingsDone(pos, indices)
               THEN pc' = "clean_delete" /\ pos' = 1
               ELSE pc' = pc /\ pos' = pos + 1
            /\ UNCHANGED outcome
    /\ UNCHANGED <<args, msgs, indices, now, checked_at,
                   templates, data_streams, backing, created, prior>>

CleanKeepIndex(dt) ==
    /\ pc = "clean_delete"
    /\ pos \in 1..Len(indices_creation_dates)
    /\ now + dt <= Now0 + MaxTicks
    /\ now' = now + dt
    /\ LET item == indices_creation_dates[pos]
           age == now' - item.creation_date
       IN /\ ~ExceedsRetention(age, args.retention_period[1])
          /\ checked_at' = Append(checked_at, [index |-> item.index, at |-> now'])
    /\ pos' = pos + 1
    /\ UNCHANGED <<args, pc, outcome, response, log, msgs, indices,
                   indices_creation_dates, templates, data_streams,
                   backing, created, prior>>

CleanDeleteIndex(r, dt) ==
    /\ pc = "clean_delete"
    /\ pos \in 1..Len(indices_creation_dates)
    /\ now + dt <= Now0 + MaxTicks
    /\ now' = now + dt
    /\ LET item == indices_creation_dates[pos]
           age == now' - item.creation_date
       IN /\ ExceedsRetention(age, args.retention_period[1])
          /\ checked_at' = Append(checked_at, [index |-> item.index, at |-> now'])
          /\ response' = r
          /\ log' = Append(log, Req("DELETE", IndexPath(item.index), r))
          /\ IF Raises(r)
             THEN /\ msgs' = Append(msgs, Msg("info", "Deleting index", item.index))
                  /\ Raise
                  /\ UNCHANGED pos
             ELSE /\ msgs' = msgs \o <<Msg("info", "Deleting index", item.index),
                                       Msg("info", "Deleted index", item.index)>>
                  /\ pos' = pos + 1
                  /\ UNCHANGED <<pc, outcome>>
          /\ backing' = IF r.status \in 200..299
                        THEN SelectSeq(backing, LAMBDA x : x # item.index)
                        ELSE backing
    /\ UNCHANGED <<args, indices, indices_creation_dates,
                   templates, data_streams, created, prior>>

CleanFinish ==
    /\ pc = "clean_delete"
    /\ pos > Len(indices_creation_dates)
    /\ msgs' = Append(msgs, Msg("info", "Finished cleaning data stream",
                                args.data_stream))
    /\ Return
    /\ UNCHANGED <<args, response, log, indices, indices_creation_dates, pos,
                   now, checked_at, templates, data_streams, backing, created, prior>>

(* ---------------------------- one CLI run ------------------------------ *)
Next ==
    \/ \E r \in StatusReplies : CheckConnection(r)
    \/ Dispatch
    \/ \E r \in StatusReplies : CreatePutTemplate(r)
    \/ \E r \in BodyReplies : CreatePutStream(r)
    \/ \E r \in StatusReplies : RolloverExists(r)
    \/ \E r \in StatusReplies : RolloverPost(r)
    \/ \E r \in StatusReplies : CleanExists(r)
    \/ \E r \in JsonReplies : CleanGetDescriptor(r)
    \/ \E r \in JsonReplies : CleanGetSettings(r)
    \/ \E dt \in 0..MaxTicks : CleanKeepIndex(dt)
    \/ \E r \in LoopReplies, dt \in 0..MaxTicks : CleanDeleteIndex(r, dt)
    \/ CleanFinish

Spec == Init /\ [][Next]_vars

(* ------------- create_data_stream called repeatedly -------------------- *)
(* The store of these runs accepts every template upsert, creates a data   *)
(* stream that is absent and answers 400 resource_already_exists_exception *)
(* for one that is present.                                                *)
UpsertReply == [status |-> 200, body |-> Unread]
CreateReply(name) ==
    IF name \in data_streams
    THEN [status |-> 400, body |-> AlreadyExists]
    ELSE [status |-> 200, body |-> "data"]

InitIdem ==
    /\ args \in [action : {"create"}, data_stream : Names, retention_period : {None}]
    /\ pc = "create_template"
    /\ Locals0
    /\ templates \in SUBSET {TemplateName(n) : n \in Names}
    /\ data_streams \in SUBSET Names
    /\ backing = <<>>
    /\ created = [i \in IndexNames |-> Now0]

CallAgain ==
    /\ pc = "done"
    /\ Len(prior) + 1 < MaxCalls
    /\ prior' = Append(prior, [data_stream |-> args.data_stream,
                               outcome |-> outcome, msgs |-> msgs])
    /\ args' \in [action : {"create"}, data_stream : Names, retention_period : {None}]
    /\ pc' = "create_template"
    /\ outcome' = "running"
    /\ response' = NoResponse
    /\ log' = <<>>
    /\ msgs' = <<>>
    /\ UNCHANGED <<indices, indices_creation_dates, pos, now, checked_at,
                   templates, data_streams, backing, created>>

NextIdem ==
    \/ CreatePutTemplate(UpsertReply)
    \/ CreatePutStream(CreateReply(args.data_stream))
    \/ CallAgain

SpecIdem == InitIdem /\ [][NextIdem]_vars

(* ---------------------------- properties ------------------------------- *)
Last(seq) == seq[Len(seq)]
IsError(status) == status = NoStatus \/ status \in 400..599
Logged(text) == \E j \in 1..Len(msgs) : msgs[j].text = text
DeleteReqs == {j \in 1..Len(log) : log[j].method = "DELETE"}
Deleted(index) == \E j \in DeleteReqs : log[j].path = IndexPath(index)
Listed == {indices[j] : j \in 1..Len(indices)}
Threshold == args.retention_period[1] * 86400 * 1000
Finished == outcome = "returned" /\ Logged("Finished cleaning data stream")

(* C1: in clean, every backing index of the descriptor is examined, and a  *)
(* delete request is issued for an index iff its age at the moment it is   *)
(* examined (time read minus creation time) is strictly greater than       *)
(* retention_period_days * 86400 seconds; an age equal to the threshold is *)
(* retained.                                                               *)
RetentionIsStrict ==
    args.action = "clean" =>
        /\ \A j \in 1..Len(checked_at) :
              Deleted(checked_at[j].index)
                  <=> (checked_at[j].at - created[checked_at[j].index] > Threshold)
        /\ Finished =>
              \A index \in Listed :
                  \E j \in 1..Len(checked_at) : checked_at[j].index = index

RetentionIsStrictWitness ==
    /\ args.action = "clean"
    /\ Finished
    /\ \E j, q \in 1..Len(checked_at) :
          /\ checked_at[j].at - created[checked_at[j].index] = Threshold
          /\ ~Deleted(checked_at[j].index)
          /\ checked_at[q].at - created[checked_at[q].index] = Threshold + 1
          /\ Deleted(checked_at[q].index)

(* C2: a clean run without --retention-period sends no request at all to   *)
(* the store, the cluster-health probe included.                           *)
UsageErrorBeforeAnyRequest ==
    (args.action = "clean" /\ args.retention_period = None) => log = <<>>

(* C3: two create calls in sequence for one name, against a store that     *)
(* accepts the upsert and reports an existing stream as already existing,  *)
(* both return normally, and the store then holds exactly one data stream  *)
(* and one template of that name.                                          *)
CreateIsIdempotent ==
    (/\ pc = "done"
     /\ Len(prior) >= 1
     /\ Last(prior).data_stream = args.data_stream)
    => /\ Last(prior).outcome = "returned"
       /\ outcome = "returned"
       /\ Cardinality({n \in data_streams : n = args.data_stream}) = 1
       /\ Cardinality({t \in templates : t = TemplateName(args.data_stream)}) = 1

CreateIsIdempotentWitness ==
    /\ pc = "done"
    /\ Len(prior) = 1
    /\ prior[1].data_stream = args.data_stream
    /\ \E j \in 1..Len(prior[1].msgs) : prior[1].msgs[j].text = "Created data stream"
    /\ Logged("Data stream already exists")
    /\ outcome = "returned"

(* C4: in rollover and clean, an existence check answered with any status  *)
(* other than 200 ends the operation with an error message and a normal    *)
(* return, and it stays the last request of the run.                       *)
AbsentStreamSoftFails ==
    (/\ args.action \in {"rollover", "clean"}
     /\ Len(log) >= 2
     /\ log[2].status # 200
     /\ log[2].status # NoStatus)
    => /\ log[2] = [method |-> "GET", path |-> DataStreamPath(args.data_stream),
                    status |-> log[2].status]
       /\ Len(log) = 2
       /\ outcome = "returned"
       /\ pc = "done"
       /\ Last(msgs) = Msg("error", "Data stream does not exist", args.data_stream)

AbsentStreamSoftFailsWitness ==
    /\ args.action = "clean"
    /\ args.retention_period # None
    /\ Len(log) = 2
    /\ log[2].status = 201
    /\ outcome = "returned"

(* C5: in create, after a successful upsert, a reply of 400 with error     *)
(* type resource_already_exists_exception makes the operation return       *)
(* normally with "already exists" logged, the data stream "created"        *)
(* message never logged, and no request after that reply.                  *)
AlreadyExistsIsSuccess ==
    (/\ args.action = "create"
     /\ Len(log) >= 3
     /\ log[3].status = 400
     /\ response.body = AlreadyExists)
    => /\ Len(log) = 3
       /\ outcome = "returned"
       /\ pc = "done"
       /\ Last(msgs) = Msg("info", "Data stream already exists", args.data_stream)
       /\ ~Logged("Created data stream")

AlreadyExistsIsSuccessWitness ==
    /\ args.action = "create"
    /\ Len(log) = 3
    /\ ~IsError(log[2].status)
    /\ log[3].status = 400
    /\ response.body = AlreadyExists
    /\ outcome = "returned"

(* C6 as stated: in create, every reply to the create-data-stream request  *)
(* whose status is not 2xx, other than 400 with the already-exists type,   *)
(* ends in a propagated failure without the "created" message.             *)
CreateNon2xxFails ==
    (/\ args.action = "create"
     /\ Len(log) >= 3
     /\ log[3].status # NoStatus
     /\ log[3].status \notin 200..299
     /\ ~(log[3].status = 400 /\ response.body = AlreadyExists))
    => /\ outcome = "raised"
       /\ ~Logged("Created data stream")

(* C6 amended: in create, every reply to the create-data-stream request    *)
(* whose status is 4xx or 5xx, other than 400 with the already-exists      *)
(* type, ends in a propagated failure without the "created" message.       *)
CreateErrorStatusFails ==
    (/\ args.action = "create"
     /\ Len(log) >= 3
     /\ log[3].status \in 400..599
     /\ ~(log[3].status = 400 /\ response.body = AlreadyExists))
    => /\ outcome = "raised"
       /\ Len(log) = 3
       /\ ~Logged("Created data stream")

CreateErrorStatusFailsWitness ==
    /\ args.action = "create"
    /\ Len(log) = 3
    /\ log[3].status = 400
    /\ response.body = "illegal_argument_exception"
    /\ outcome = "raised"

(* C7: the first request of a run is the cluster-health query, any later   *)
(* request follows a health reply that was not an error, and a failed      *)
(* health query ends the run with no further request.                      *)
ConnectivityCheckedFirst ==
    /\ Len(log) >= 1 => /\ log[1].method = "GET"
                        /\ log[1].path = HealthPath
    /\ Len(log) >= 2 => ~IsError(log[1].status)
    /\ (Len(log) >= 1 /\ IsError(log[1].status))
           => (Len(log) = 1 /\ outcome = "raised" /\ pc = "done")

ConnectivityCheckedFirstWitness ==
    /\ Len(log) = 1
    /\ log[1].path = HealthPath
    /\ log[1].status = 500
    /\ outcome = "raised"

(* C8: in clean, a delete request answered with an error is the last       *)
(* request of the run: the operation ends in a propagated failure, later   *)
(* indices get no delete, the delete is not retried and the completion     *)
(* message is not logged.                                                  *)
FailedDeleteAborts ==
    \A j \in DeleteReqs :
        IsError(log[j].status) =>
            /\ j = Len(log)
            /\ outcome = "raised"
            /\ pc = "done"
            /\ ~Logged("Finished cleaning data stream")
            /\ \A q \in DeleteReqs : q # j => log[q].path # log[j].path

FailedDeleteAbortsWitness ==
    /\ Len(log) >= 1
    /\ Last(log).method = "DELETE"
    /\ Last(log).status = 404
    /\ outcome = "raised"
    /\ Len(indices_creation_dates) = 2
    /\ pos = 1
    /\ now - indices_creation_dates[2].creation_date > Threshold

(* C9: in clean, no delete request is issued before the settings query of  *)
(* every listed index has been answered without error, so a failed         *)
(* descriptor or settings query ends the operation with nothing deleted.   *)
SettingsBeforeDeletes ==
    /\ \A j \in DeleteReqs :
          /\ \A q \in 1..Len(log) : q > j => log[q].method = "DELETE"
          /\ \A index \in Listed :
                \E q \in 1..(j - 1) : /\ log[q].method = "GET"
                                      /\ log[q].path = IndexPath(index)
                                      /\ ~IsError(log[q].status)
    /\ (outcome = "raised" /\ Len(log) >= 1 /\ Last(log).method = "GET")
           => DeleteReqs = {}

SettingsBeforeDeletesWitness ==
    /\ args.action = "clean"
    /\ outcome = "raised"
    /\ Len(indices) = 2
    /\ Len(indices_creation_dates) = 1
    /\ Last(log).path = IndexPath(indices[2])
    /\ now - indices_creation_dates[1].creation_date > Threshold
    /\ DeleteReqs = {}

(* C10: in clean, every delete request names an index of the descriptor    *)
(* read in the same run, no index is deleted twice, neither the data       *)
(* stream nor its template is deleted, and no PUT or POST is issued.       *)
CleanOnlyDeletesListed ==
    args.action = "clean" =>
        /\ \A j \in 1..Len(log) : log[j].method \in {"GET", "DELETE"}
        /\ \A j \in DeleteReqs :
              /\ \E index \in Listed : log[j].path = IndexPath(index)
              /\ log[j].path # DataStreamPath(args.data_stream)
              /\ log[j].path # TemplatePath(args.data_stream)
              /\ \A q \in DeleteReqs : q # j => log[q].path # log[j].path

CleanOnlyDeletesListedWitness ==
    /\ args.action = "clean"
    /\ Finished
    /\ Len(indices) = 2
    /\ indices[1] = indices[2]
    /\ Cardinality(DeleteReqs) = 1

====
